---------------------------- MODULE Spec2Model ----------------------------
(***************************************************************************)
(* Model of internal/codeintel/codenav/request_state.go: the per-request   *)
(* RequestState and its UploadsDataLoader (a slice of uploads, a map of    *)
(* uploads by id, and the RWMutex that guards the locked operations).      *)
(*                                                                         *)
(* Attribute values (strings, timestamps, pointers, counters) are          *)
(* naturals; 0 is the Go zero value ("", time.Time{}, nil, 0).             *)
(* The slice l.uploads is a header (ptr, len, cap) over a heap of backing  *)
(* arrays, as in the Go runtime; ptr = 0 is the nil slice.                 *)
(***************************************************************************)
EXTENDS Integers, Sequences, FiniteSets, TLC

\* ---- bounds of the model -------------------------------------------------
\* largest upload identifier handed to the program (identifiers are 0..MaxID)
MaxID == 1
\* largest attribute payload of an upload (payloads are 0..MaxVer)
MaxVer == 1
\* longest upload list handed to NewRequestState
MaxInit == 1
\* longest upload list handed to SetUploadInCacheMap
MaxRefresh == 2
\* number of calls concurrent goroutines make after construction
MaxOps == 2
\* number of calls a single goroutine makes after construction
MaxSeqOps == 3
\* largest hunkCacheSize / maxIndexes handed to NewRequestState
MaxSize == 1

Procs == {1, 2}
IDs == 0..MaxID
Vers == 0..MaxVer
Sizes == -1..MaxSize
AuthCheckers == {"checkerA", "checkerB"}

VARIABLES
    env,                \* the request's environment: who calls, how often, with what
    constructed,        \* NewRequestState has returned r
    GitTreeTranslator,  \* r.GitTreeTranslator: "nil" or the translator's hunk cache size
    commitCache,        \* r.commitCache: "nil" or "set"
    maximumIndexesPerMonikerSearch,
    authChecker,
    ctorArgs,           \* the arguments NewRequestState was called with
    ctorErr,            \* NewRequestState reported an error to its caller
    held,               \* the slice a caller keeps from GetCacheUploads
    uploads,            \* l.uploads: slice header [ptr, len, cap]
    heap,               \* backing arrays, heap[ptr] a sequence of cap elements
    pending,            \* the stores of an append statement that is executing
    uploadsByID,        \* l.uploadsByID
    cacheMutex,         \* l.cacheMutex
    g,                  \* per goroutine: position, arguments and locals
    ret,                \* per goroutine: what its last finished call returned
    log,                \* history: the mutating calls, in lock order
    nops                \* number of calls started

vars == <<env, constructed, GitTreeTranslator, commitCache,
          maximumIndexesPerMonikerSearch, authChecker, ctorArgs, ctorErr,
          held, uploads, heap, pending, uploadsByID, cacheMutex, g, ret, log, nops>>

rvars == <<env, constructed, GitTreeTranslator, commitCache,
           maximumIndexesPerMonikerSearch, authChecker, ctorArgs, ctorErr,
           held>>

\* a goroutine that is not inside a call: its position, the call it makes and
\* the call's argument, its loop index or lookup result, and the loader it saw
\* when it took the write lock
Idle == [pc |-> "idle", op |-> "none", arg |-> 0, i |-> 0, snap |-> 0]

\* ---- uploads -------------------------------------------------------------
\* a dbstore.Dump with identifier id whose other attributes carry payload v
StorageDump(id, v) ==
    [ID |-> id, Commit |-> v, Root |-> v, VisibleAtTip |-> (v # 0),
     UploadedAt |-> v, State |-> v, FailureMessage |-> v, StartedAt |-> v,
     FinishedAt |-> v, ProcessAfter |-> v, NumResets |-> v, NumFailures |-> v,
     RepositoryID |-> v, RepositoryName |-> v, Indexer |-> v,
     IndexerVersion |-> v, AssociatedIndexID |-> v]

StorageDumps == {StorageDump(id, v) : id \in IDs, v \in Vers}

\* mutant of ToSharedDump: the literal leaves IndexerVersion out
ToSharedDumpDropsIndexerVersion(d) ==
    [ID |-> d.ID, Commit |-> d.Commit, Root |-> d.Root,
     VisibleAtTip |-> d.VisibleAtTip, UploadedAt |-> d.UploadedAt,
     State |-> d.State, FailureMessage |-> d.FailureMessage,
     StartedAt |-> d.StartedAt, FinishedAt |-> d.FinishedAt,
     ProcessAfter |-> d.ProcessAfter, NumResets |-> d.NumResets,
     NumFailures |-> d.NumFailures, RepositoryID |-> d.RepositoryID,
     RepositoryName |-> d.RepositoryName, Indexer |-> d.Indexer,
     IndexerVersion |-> 0, AssociatedIndexID |-> d.AssociatedIndexID]

\* shared.Dump{}: the composite literal AddUpload builds from a dbstore.Dump
ToSharedDump(d) ==
    [ID |-> d.ID, Commit |-> d.Commit, Root |-> d.Root,
     VisibleAtTip |-> d.VisibleAtTip, UploadedAt |-> d.UploadedAt,
     State |-> d.State, FailureMessage |-> d.FailureMessage,
     StartedAt |-> d.StartedAt, FinishedAt |-> d.FinishedAt,
     ProcessAfter |-> d.ProcessAfter, NumResets |-> d.NumResets,
     NumFailures |-> d.NumFailures, RepositoryID |-> d.RepositoryID,
     RepositoryName |-> d.RepositoryName, Indexer |-> d.Indexer,
     IndexerVersion |-> d.IndexerVersion,
     AssociatedIndexID |-> d.AssociatedIndexID]

\* shared.Dump{} with no field set
ZeroDump ==
    [ID |-> 0, Commit |-> 0, Root |-> 0, VisibleAtTip |-> FALSE,
     UploadedAt |-> 0, State |-> 0, FailureMessage |-> 0, StartedAt |-> 0,
     FinishedAt |-> 0, ProcessAfter |-> 0, NumResets |-> 0, NumFailures |-> 0,
     RepositoryID |-> 0, RepositoryName |-> 0, Indexer |-> 0,
     IndexerVersion |-> 0, AssociatedIndexID |-> 0]

SharedDumps == {ToSharedDump(d) : d \in StorageDumps}

\* a run-time panic (index out of range, nil dereference)
Fault == [panic |-> TRUE]

SeqsUpTo(S, n) == UNION {[1..k -> S] : k \in 0..n}

\* ---- the slice -----------------------------------------------------------
NilSlice == [ptr |-> 0, len |-> 0, cap |-> 0]

\* runtime.growslice's new capacity for a small slice
GrowCap(oldcap, newlen) == IF newlen > 2 * oldcap THEN newlen ELSE 2 * oldcap

\* the part of append(s, e) before its stores: the new header, and the heap
\* with a new backing array (the old elements copied, the rest zeroed) when
\* the capacity is exhausted
GrowSlice(S) ==
    LET n == S.hdr.len + 1 IN
    IF n > S.hdr.cap
    THEN LET c == GrowCap(S.hdr.cap, n)
             arr == [i \in 1..c |->
                        IF i < n THEN S.heap[S.hdr.ptr][i] ELSE ZeroDump]
         IN [hdr |-> [ptr |-> Len(S.heap) + 1, len |-> n, cap |-> c],
             heap |-> Append(S.heap, arr)]
    ELSE [hdr |-> [S.hdr EXCEPT !.len = n], heap |-> S.heap]

\* the stores of append(s, e): the new element
StoreElem(hp, hdr, e) == [hp EXCEPT ![hdr.ptr][hdr.len] = e]

\* s = append(s, e) as one step
AppendSlice(S, e) ==
    LET G == GrowSlice(S) IN
    [hdr |-> G.hdr, heap |-> StoreElem(G.heap, G.hdr, e)]

\* the elements a slice header denotes
View(hp, hdr) == [i \in 1..hdr.len |-> hp[hdr.ptr][i]]

\* ---- the map -------------------------------------------------------------
EmptyMap == [k \in {} |-> ZeroDump]

\* mutant of MapPut: an existing entry is kept (first write wins)
MapPutKeepsFirst(m, k, v) ==
    [x \in (DOMAIN m) \cup {k} |-> IF x \in DOMAIN m THEN m[x] ELSE v]

\* mutant of MapPut: the store drops every other key
MapPutDropsOthers(m, k, v) == [x \in {k} |-> v]

\* m[k] = v
MapPut(m, k, v) == [x \in (DOMAIN m) \cup {k} |-> IF x = k THEN v ELSE m[x]]

\* mutant of MapGet: the lookup reports ok for a key the map does not hold
MapGetAlwaysOk(m, k) ==
    [upload |-> IF k \in DOMAIN m THEN m[k] ELSE ZeroDump, ok |-> TRUE]

\* v, ok := m[k]
MapGet(m, k) ==
    [upload |-> IF k \in DOMAIN m THEN m[k] ELSE ZeroDump, ok |-> k \in DOMAIN m]

\* mutant of DumpKey: the map is keyed by the repository, not the upload
DumpKeyIsRepository(d) == d.RepositoryID

\* the key an upload is stored under: dump.ID, uploads[i].ID
DumpKey(d) == d.ID

\* ---- the loader, sequentially ---------------------------------------------
\* NewUploadsDataLoader
NewUploadsDataLoader ==
    [hdr |-> NilSlice, heap |-> <<>>, byID |-> EmptyMap]

\* one whole, uncontended AddUpload call
AddUploadCall(L, d) ==
    LET dump == ToSharedDump(d)
        S == AppendSlice([hdr |-> L.hdr, heap |-> L.heap], dump)
    IN [hdr |-> S.hdr, heap |-> S.heap, byID |-> MapPut(L.byID, DumpKey(dump), dump)]

\* mutant of SetUploadIteration: the upload is appended to the slice as well
SetUploadIterationAppends(L, d) ==
    LET S == AppendSlice([hdr |-> L.hdr, heap |-> L.heap], d)
    IN [hdr |-> S.hdr, heap |-> S.heap, byID |-> MapPut(L.byID, DumpKey(d), d)]

\* mutant of SetUploadIteration: the map is rebuilt from the new upload
SetUploadIterationEvicts(L, d) == [L EXCEPT !.byID = MapPut(EmptyMap, DumpKey(d), d)]

\* one iteration of SetUploadInCacheMap's loop, for the upload d
SetUploadIteration(L, d) == [L EXCEPT !.byID = MapPut(L.byID, DumpKey(d), d)]

\* mutant of OutOfRange: the upper bound is off by one
OutOfRangeOffByOne(index, len) == index < 0 \/ index > len

\* index < 0 || index >= len(r.dataLoader.uploads)
OutOfRange(index, len) == index < 0 \/ index >= len

\* GetCacheUploadsAtIndex on a loader no goroutine is writing
AtValue(hp, hdr, index) ==
    IF OutOfRange(index, hdr.len) THEN ZeroDump ELSE hp[hdr.ptr][index + 1]

\* SetUploadsDataLoader: a new loader, then AddUpload for each upload in order
RECURSIVE AddAll(_, _)
AddAll(L, ds) ==
    IF ds = <<>> THEN L ELSE AddAll(AddUploadCall(L, Head(ds)), Tail(ds))

\* mutant of SetUploadsDataLoader: the uploads are added last to first
SetUploadsDataLoaderReversed(ds) ==
    AddAll(NewUploadsDataLoader, [i \in 1..Len(ds) |-> ds[Len(ds) + 1 - i]])

SetUploadsDataLoader(ds) == AddAll(NewUploadsDataLoader, ds)

\* SetMaximumIndexesPerMonikerSearch: the value r keeps
SetMaximumIndexesPerMonikerSearch(maxNumber) == maxNumber

\* SetAuthChecker: the value r keeps
SetAuthChecker(checker) == checker

\* NewHunkCache(size): fails when the size is not positive
NewHunkCacheFails(size) == size <= 0

\* SetLocalGitTreeTranslator: the translator it leaves in r, and its error
SetLocalGitTreeTranslator(old, hunkCacheSize) ==
    IF NewHunkCacheFails(hunkCacheSize)
    THEN [translator |-> old, err |-> TRUE]
    ELSE [translator |-> hunkCacheSize, err |-> FALSE]

\* ---- initial state -------------------------------------------------------
NoRet == [op |-> "none", arg |-> 0, val |-> 0, obs |-> 0]
NoPending == [active |-> FALSE, hdr |-> NilSlice, elem |-> ZeroDump]

\* two goroutines serve the request; one configuration
ConcEnv == [procs |-> Procs, ops |-> MaxOps, lists |-> MaxInit,
            sizes |-> {MaxSize}, checkers |-> {"checkerA"}]
\* one goroutine serves the request; one configuration
SeqEnv == [procs |-> {1}, ops |-> MaxSeqOps, lists |-> MaxInit,
           sizes |-> {MaxSize}, checkers |-> {"checkerA"}]
\* one goroutine serves the request and may hand the scope a new list
ReloadEnv == [procs |-> {1}, ops |-> MaxOps, lists |-> MaxInit,
              sizes |-> {MaxSize}, checkers |-> {"checkerA"}]
\* every configuration; one goroutine makes one call
CtorEnv == [procs |-> {1}, ops |-> 1, lists |-> MaxInit + 1,
            sizes |-> Sizes, checkers |-> AuthCheckers]

InitEnv(e) ==
    /\ env = e
    /\ constructed = FALSE
    /\ GitTreeTranslator = "nil"
    /\ commitCache = "nil"
    /\ maximumIndexesPerMonikerSearch = 0
    /\ authChecker = "nil"
    /\ ctorArgs = <<>>
    /\ ctorErr = FALSE
    /\ held = NilSlice
    /\ uploads = NilSlice
    /\ heap = <<>>
    /\ pending = [p \in Procs |-> NoPending]
    /\ uploadsByID = EmptyMap
    /\ cacheMutex = [w |-> 0, wp |-> 0, r |-> {}]
    /\ g = [p \in Procs |-> Idle]
    /\ ret = [p \in Procs |-> NoRet]
    /\ log = <<>>
    /\ nops = 0

Init == InitEnv(ConcEnv)
InitSeq == InitEnv(SeqEnv)
InitCtor == InitEnv(CtorEnv)
InitReload == InitEnv(ReloadEnv)

\* ---- construction --------------------------------------------------------
\* NewRequestState: the whole constructor; r is not shared until it returns
NewRequestState(ups, checker, maxIndexes, hunkCacheSize) ==
    /\ ~constructed
    /\ LET L == SetUploadsDataLoader(ups)
           T == SetLocalGitTreeTranslator("nil", hunkCacheSize)
       IN /\ uploads' = L.hdr
          /\ heap' = L.heap
          /\ uploadsByID' = L.byID
          /\ GitTreeTranslator' = T.translator
    /\ authChecker' = SetAuthChecker(checker)
    /\ commitCache' = "set"
    /\ maximumIndexesPerMonikerSearch' = SetMaximumIndexesPerMonikerSearch(maxIndexes)
    /\ ctorArgs' = <<[uploads |-> ups, authChecker |-> checker,
                      maxIndexes |-> maxIndexes, hunkCacheSize |-> hunkCacheSize]>>
    /\ ctorErr' = FALSE   \* the only result is r: T.err is dropped
    /\ log' = [i \in 1..Len(ups) |-> [op |-> "AddUpload", d |-> ups[i]]]
    /\ constructed' = TRUE
    /\ UNCHANGED <<env, held, pending, cacheMutex, g, ret, nops>>

\* ---- sync.RWMutex --------------------------------------------------------
\* mutant of NoWriter: Lock and RLock never wait for a writer
NoWriterUnchecked(m) == TRUE

\* no writer holds or waits for the lock
NoWriter(m) == m.wp = 0

\* mutant of ReadersGone: the writer does not wait for the readers to leave
ReadersGoneUnchecked(m, p) == m.wp = p

\* the readers that held the lock when writer p announced itself have left
ReadersGone(m, p) == m.wp = p /\ m.r = {}

\* the loader as a record, for the history
Loader == [hdr |-> uploads, heap |-> heap, byID |-> uploadsByID]

\* Lock, first half: the writer announces itself; later RLock calls wait
LockBegin(p) ==
    /\ g[p].pc = "Lock"
    /\ NoWriter(cacheMutex)
    /\ cacheMutex' = [cacheMutex EXCEPT !.wp = p]
    /\ g' = [g EXCEPT ![p].pc = "LockWait"]
    /\ UNCHANGED <<rvars, uploads, heap, pending, uploadsByID, ret, log, nops>>

\* Lock, second half: the readers have left; the call's writes start here
LockAcquire(p) ==
    /\ g[p].pc = "LockWait"
    /\ ReadersGone(cacheMutex, p)
    /\ cacheMutex' = [cacheMutex EXCEPT !.w = p]
    /\ g' = [g EXCEPT ![p].pc = IF g[p].op = "AddUpload" THEN "append" ELSE "range",
                      ![p].snap = Loader]
    /\ log' = Append(log, [op |-> g[p].op, d |-> g[p].arg])
    /\ UNCHANGED <<rvars, uploads, heap, pending, uploadsByID, ret, nops>>

\* mutant of Released: the writer leaves but its announcement stays
ReleasedKeepsAnnouncement(m) == [m EXCEPT !.w = 0]

\* the mutex after the writer's Unlock
Released(m) == [m EXCEPT !.w = 0, !.wp = 0]

\* the deferred Unlock, and the return of AddUpload / SetUploadInCacheMap
Unlock(p) ==
    /\ g[p].pc = "Unlock"
    /\ cacheMutex' = Released(cacheMutex)
    /\ ret' = [ret EXCEPT ![p] = [op |-> g[p].op, arg |-> g[p].arg, val |-> 0, obs |-> 0]]
    /\ g' = [g EXCEPT ![p] = Idle]
    /\ UNCHANGED <<rvars, uploads, heap, pending, uploadsByID, log, nops>>

\* RLock: waits while a writer holds or has announced the lock
RLock(p) ==
    /\ g[p].pc = "RLock"
    /\ NoWriter(cacheMutex)
    /\ cacheMutex' = [cacheMutex EXCEPT !.r = @ \cup {p}]
    /\ g' = [g EXCEPT ![p].pc = "mapread"]
    /\ UNCHANGED <<rvars, uploads, heap, pending, uploadsByID, ret, log, nops>>

\* goroutine p serves the request and is free to make a call
Callable(p) == constructed /\ p \in env.procs /\ g[p].pc = "idle" /\ nops < env.ops

\* ---- GetUploadFromCacheMap -----------------------------------------------
CallGetUploadFromCacheMap(p, id) ==
    /\ Callable(p)
    /\ g' = [g EXCEPT ![p] = [pc |-> "RLock", op |-> "GetUploadFromCacheMap",
                              arg |-> id, i |-> 0, snap |-> 0]]
    /\ ret' = [ret EXCEPT ![p] = NoRet]
    /\ nops' = nops + 1
    /\ UNCHANGED <<rvars, uploads, heap, pending, uploadsByID, cacheMutex, log>>

\* upload, ok := l.uploadsByID[id]
MapRead(p) ==
    /\ g[p].pc = "mapread"
    /\ g' = [g EXCEPT ![p].pc = "RUnlock", ![p].i = MapGet(uploadsByID, g[p].arg)]
    /\ UNCHANGED <<rvars, uploads, heap, pending, uploadsByID, cacheMutex, ret, log, nops>>

\* the deferred RUnlock, and return upload, ok
RUnlock(p) ==
    /\ g[p].pc = "RUnlock"
    /\ cacheMutex' = [cacheMutex EXCEPT !.r = @ \ {p}]
    /\ ret' = [ret EXCEPT ![p] = [op |-> g[p].op, arg |-> g[p].arg,
                                  val |-> g[p].i, obs |-> 0]]
    /\ g' = [g EXCEPT ![p] = Idle]
    /\ UNCHANGED <<rvars, uploads, heap, pending, uploadsByID, log, nops>>

\* ---- AddUpload -----------------------------------------------------------
CallAddUpload(p, d) ==
    /\ Callable(p)
    /\ g' = [g EXCEPT ![p] = [pc |-> "Lock", op |-> "AddUpload", arg |-> d,
                              i |-> 0, snap |-> 0]]
    /\ ret' = [ret EXCEPT ![p] = NoRet]
    /\ nops' = nops + 1
    /\ UNCHANGED <<rvars, uploads, heap, pending, uploadsByID, cacheMutex, log>>

\* l.uploads = append(l.uploads, dump): up to its stores. The stores (header
\* words, element) are not ordered for a goroutine that reads without the lock.
AppendBegin(p) ==
    /\ g[p].pc = "append"
    /\ LET G == GrowSlice([hdr |-> uploads, heap |-> heap]) IN
       /\ heap' = G.heap
       /\ pending' = [pending EXCEPT ![p] = [active |-> TRUE, hdr |-> G.hdr,
                                              elem |-> ToSharedDump(g[p].arg)]]
    /\ g' = [g EXCEPT ![p].pc = "appendStores"]
    /\ UNCHANGED <<rvars, uploads, uploadsByID, cacheMutex, ret, log, nops>>

\* l.uploads = append(l.uploads, dump): all its stores are done
AppendEnd(p) ==
    /\ g[p].pc = "appendStores"
    /\ uploads' = pending[p].hdr
    /\ heap' = StoreElem(heap, pending[p].hdr, pending[p].elem)
    /\ pending' = [pending EXCEPT ![p] = NoPending]
    /\ g' = [g EXCEPT ![p].pc = "mapstore"]
    /\ UNCHANGED <<rvars, uploadsByID, cacheMutex, ret, log, nops>>

\* l.uploadsByID[dump.ID] = dump
MapStore(p) ==
    /\ g[p].pc = "mapstore"
    /\ LET dump == ToSharedDump(g[p].arg) IN
       uploadsByID' = MapPut(uploadsByID, DumpKey(dump), dump)
    /\ g' = [g EXCEPT ![p].pc = "Unlock"]
    /\ UNCHANGED <<rvars, uploads, heap, pending, cacheMutex, ret, log, nops>>

\* ---- SetUploadInCacheMap -------------------------------------------------
CallSetUploadInCacheMap(p, ds) ==
    /\ Callable(p)
    /\ g' = [g EXCEPT ![p] = [pc |-> "Lock", op |-> "SetUploadInCacheMap",
                              arg |-> ds, i |-> 0, snap |-> 0]]
    /\ ret' = [ret EXCEPT ![p] = NoRet]
    /\ nops' = nops + 1
    /\ UNCHANGED <<rvars, uploads, heap, pending, uploadsByID, cacheMutex, log>>

\* for i := range uploads { l.uploadsByID[uploads[i].ID] = uploads[i] }: one
\* iteration, or the end of the loop
RangeStep(p) ==
    /\ g[p].pc = "range"
    /\ IF g[p].i < Len(g[p].arg)
       THEN /\ LET L == SetUploadIteration(Loader, g[p].arg[g[p].i + 1]) IN
               /\ uploads' = L.hdr
               /\ heap' = L.heap
               /\ uploadsByID' = L.byID
            /\ g' = [g EXCEPT ![p].i = @ + 1]
       ELSE /\ g' = [g EXCEPT ![p].pc = "Unlock"]
            /\ UNCHANGED <<uploads, heap, uploadsByID>>
    /\ UNCHANGED <<rvars, pending, cacheMutex, ret, log, nops>>

\* ---- reads of l.uploads, which take no lock --------------------------------
\* what a load of the slice header can yield
Storing == {p \in Procs : pending[p].active}

HeaderLoads ==
    {[ptr |-> a, len |-> b, cap |-> c] :
        a \in {uploads.ptr} \cup {pending[p].hdr.ptr : p \in Storing},
        b \in {uploads.len} \cup {pending[p].hdr.len : p \in Storing},
        c \in {uploads.cap} \cup {pending[p].hdr.cap : p \in Storing}}

\* what a load of element i (from 1) behind pointer ptr can yield
ElemLoads(ptr, i) ==
    IF ptr = 0 THEN {Fault}
    ELSE IF i > Len(heap[ptr]) THEN SharedDumps \cup {Fault}
    ELSE {heap[ptr][i]} \cup
         UNION {{pending[p].elem,
                 [pending[p].elem EXCEPT !.ID = heap[ptr][i].ID],
                 [heap[ptr][i] EXCEPT !.ID = pending[p].elem.ID]} :
                p \in {q \in Storing : pending[q].hdr.ptr = ptr /\ pending[q].hdr.len = i}}

\* history: the map and the lock holder at the instant of a read
Observed == [byID |-> uploadsByID, w |-> cacheMutex.w]

\* mutant of ReturnSlice: the caller gets a copy of the backing array
ReturnSliceCopy(hp, h) ==
    IF h.ptr = 0 THEN [hdr |-> h, heap |-> hp]
    ELSE [hdr |-> [h EXCEPT !.ptr = Len(hp) + 1], heap |-> Append(hp, hp[h.ptr])]

\* return r.dataLoader.uploads: the caller gets the slice header as loaded;
\* nothing is allocated
ReturnSlice(hp, h) == [hdr |-> h, heap |-> hp]

\* GetCacheUploads: return r.dataLoader.uploads
GetCacheUploads(p) ==
    /\ Callable(p)
    /\ \E h \in HeaderLoads :
          LET R == ReturnSlice(heap, h) IN
             /\ ret' = [ret EXCEPT ![p] = [op |-> "GetCacheUploads", arg |-> 0,
                                           val |-> R.hdr, obs |-> Observed]]
             /\ heap' = R.heap
    /\ nops' = nops + 1
    /\ UNCHANGED <<rvars, uploads, pending, uploadsByID, cacheMutex, g, log>>

\* mutant of LoaderAfterReset: the scope keeps the loader it had
LoaderKept(L) == L

\* r.dataLoader = NewUploadsDataLoader(): the loader the scope holds after the
\* assignment; the arrays of the loader L it held stay allocated
LoaderAfterReset(L) == [NewUploadsDataLoader EXCEPT !.heap = L.heap]

\* SetUploadsDataLoader called on the scope NewRequestState returned
CallSetUploadsDataLoader(p, ds) ==
    /\ Callable(p)
    /\ \A q \in Procs : g[q].pc = "idle"
    /\ LET L == AddAll(LoaderAfterReset(Loader), ds) IN
          /\ uploads' = L.hdr
          /\ heap' = L.heap
          /\ uploadsByID' = L.byID
    /\ cacheMutex' = [w |-> 0, wp |-> 0, r |-> {}]
    /\ pending' = [q \in Procs |-> NoPending]
    /\ log' = [i \in 1..Len(ds) |-> [op |-> "AddUpload", d |-> ds[i]]]
    /\ ret' = [ret EXCEPT ![p] = [op |-> "SetUploadsDataLoader", arg |-> ds,
                                  val |-> 0, obs |-> Loader]]
    /\ nops' = nops + 1
    /\ UNCHANGED <<rvars, g>>

\* the caller keeps the slice GetCacheUploads returned to it
CallerKeep(p) ==
    /\ g[p].pc = "idle"
    /\ ret[p].op = "GetCacheUploads"
    /\ held # ret[p].val
    /\ held' = ret[p].val
    /\ UNCHANGED <<env, constructed, GitTreeTranslator, commitCache,
                   maximumIndexesPerMonikerSearch, authChecker, ctorArgs, ctorErr,
                   uploads, heap, pending, uploadsByID, cacheMutex, g, ret, log, nops>>

\* the caller assigns v to element i (from 1) of the slice it keeps
CallerWrite(p, i, v) ==
    /\ Callable(p)
    /\ held.ptr # 0
    /\ i \in 1..held.len
    /\ heap[held.ptr][i] # v
    /\ heap' = [heap EXCEPT ![held.ptr][i] = v]
    /\ ret' = [ret EXCEPT ![p] = [op |-> "write",
                                  arg |-> [hdr |-> held, index |-> i, v |-> v],
                                  val |-> 0, obs |-> Loader]]
    /\ nops' = nops + 1
    /\ UNCHANGED <<rvars, uploads, pending, uploadsByID, cacheMutex, g, log>>

\* GetCacheUploadsAtIndex, line 52: the range check against len(l.uploads)
AtCheck(p, index) ==
    /\ Callable(p)
    /\ nops' = nops + 1
    /\ \E h \in HeaderLoads :
          IF OutOfRange(index, h.len)
          THEN /\ ret' = [ret EXCEPT ![p] = [op |-> "GetCacheUploadsAtIndex",
                                             arg |-> index, val |-> ZeroDump,
                                             obs |-> Observed]]
               /\ UNCHANGED g
          ELSE /\ g' = [g EXCEPT ![p] = [pc |-> "index", op |-> "GetCacheUploadsAtIndex",
                                         arg |-> index, i |-> h.len, snap |-> 0]]
               /\ ret' = [ret EXCEPT ![p] = NoRet]
    /\ UNCHANGED <<rvars, uploads, heap, pending, uploadsByID, cacheMutex, log>>

\* GetCacheUploadsAtIndex, line 56: return r.dataLoader.uploads[index]
AtIndex(p) ==
    /\ g[p].pc = "index"
    /\ \E h \in HeaderLoads :
       \E v \in IF g[p].arg >= h.len THEN {Fault} ELSE ElemLoads(h.ptr, g[p].arg + 1) :
          ret' = [ret EXCEPT ![p] = [op |-> g[p].op, arg |-> g[p].arg,
                                     val |-> v, obs |-> Observed]]
    /\ g' = [g EXCEPT ![p] = Idle]
    /\ UNCHANGED <<rvars, uploads, heap, pending, uploadsByID, cacheMutex, log, nops>>

\* ---- specification -------------------------------------------------------
\* the indexes callers probe: below, inside and beyond every slice the bounds allow
Indexes == -1..(MaxInit + MaxSeqOps)

Construct ==
    \E ups \in SeqsUpTo(StorageDumps, env.lists), checker \in env.checkers,
       maxIndexes \in env.sizes, hunkCacheSize \in env.sizes :
          NewRequestState(ups, checker, maxIndexes, hunkCacheSize)

Step(p) ==
    \/ \E id \in IDs : CallGetUploadFromCacheMap(p, id)
    \/ RLock(p)
    \/ MapRead(p)
    \/ RUnlock(p)
    \/ \E d \in StorageDumps : CallAddUpload(p, d)
    \/ \E ds \in SeqsUpTo(SharedDumps, MaxRefresh) : CallSetUploadInCacheMap(p, ds)
    \/ LockBegin(p)
    \/ LockAcquire(p)
    \/ AppendBegin(p)
    \/ AppendEnd(p)
    \/ MapStore(p)
    \/ RangeStep(p)
    \/ Unlock(p)
    \/ GetCacheUploads(p)
    \/ \E index \in Indexes : AtCheck(p, index)
    \/ AtIndex(p)

Next == Construct \/ \E p \in Procs : Step(p)

Spec == Init /\ [][Next]_vars
SpecSeq == InitSeq /\ [][Next]_vars
SpecCtor == InitCtor /\ [][Next]_vars

\* the request's goroutine also writes to slices GetCacheUploads handed out
NextAlias ==
    \/ Next
    \/ \E p \in Procs : CallerKeep(p)
    \/ \E p \in Procs, i \in 1..(MaxInit + MaxSeqOps), v \in SharedDumps : CallerWrite(p, i, v)

SpecAlias == InitSeq /\ [][NextAlias]_vars

\* the request's goroutine also hands the scope a new list of uploads
NextReload ==
    \/ Next
    \/ \E p \in Procs, ds \in SeqsUpTo(StorageDumps, MaxInit + 1) :
          CallSetUploadsDataLoader(p, ds)

SpecReload == InitReload /\ [][NextReload]_vars

\* the steps of a call goroutine p has made: the scheduler runs every
\* goroutine that can run, and sync.RWMutex wakes its waiters
Proceed(p) ==
    \/ RLock(p)
    \/ MapRead(p)
    \/ RUnlock(p)
    \/ LockBegin(p)
    \/ LockAcquire(p)
    \/ AppendBegin(p)
    \/ AppendEnd(p)
    \/ MapStore(p)
    \/ RangeStep(p)
    \/ Unlock(p)
    \/ AtIndex(p)

\* every step of Proceed(p) changes p's position in its call
SpecFair ==
    /\ Init
    /\ [][Next]_vars
    /\ \A p \in Procs :
          WF_<<g[p].pc, IF g[p].pc = "range" THEN g[p].i ELSE 0>>(Proceed(p))

\* ---- history ---------------------------------------------------------------
\* the uploads handed to AddUpload, in lock order
InsertedDumps ==
    LET ins == SelectSeq(log, LAMBDA e : e.op = "AddUpload")
    IN [i \in 1..Len(ins) |-> ins[i].d]

\* the uploads handed to AddUpload or SetUploadInCacheMap, in the order written
RECURSIVE Flatten(_)
Flatten(l) ==
    IF l = <<>> THEN <<>>
    ELSE (IF Head(l).op = "AddUpload" THEN <<Head(l).d>> ELSE Head(l).d)
         \o Flatten(Tail(l))

WrittenDumps == Flatten(log)

OnlyInserts == \A i \in DOMAIN log : log[i].op = "AddUpload"

IdsOf(seq) == {seq[i].ID : i \in DOMAIN seq}

\* the last upload of seq with identifier id
LastWith(seq, id) ==
    seq[CHOOSE i \in DOMAIN seq :
            /\ seq[i].ID = id
            /\ \A j \in DOMAIN seq : seq[j].ID = id => j <= i]

Found(d) == [upload |-> d, ok |-> TRUE]

\* no goroutine is inside AddUpload's or SetUploadInCacheMap's critical section
NoWriterInside == cacheMutex.w = 0

Sequence == View(heap, uploads)

\* ---- C1 ------------------------------------------------------------------
\* C1: after each of a sequence of AddUpload calls on a fresh loader, the map
\* holds for every inserted identifier the most recently inserted upload with
\* that identifier, and the slice is as long as the number of calls made.
C1_InsertLastWriteWins ==
    (constructed /\ NoWriterInside /\ OnlyInserts) =>
        /\ \A id \in IdsOf(InsertedDumps) :
              MapGet(uploadsByID, id) = Found(LastWith(InsertedDumps, id))
        /\ uploads.len = Len(InsertedDumps)

\* three uploads inserted, two of them with one identifier and different fields
C1_Witness ==
    /\ constructed /\ NoWriterInside /\ OnlyInserts
    /\ Len(InsertedDumps) = 3
    /\ InsertedDumps[1].ID = InsertedDumps[3].ID
    /\ InsertedDumps[1] # InsertedDumps[3]
    /\ InsertedDumps[2].ID # InsertedDumps[1].ID
    /\ \A p \in env.procs : g[p].pc = "idle"

\* ---- C2 ------------------------------------------------------------------
AtReturned(p) == g[p].pc = "idle" /\ ret[p].op = "GetCacheUploadsAtIndex"

InRange(n) == 0 <= n /\ n < uploads.len

\* GetCacheUploadsAtIndex has one result, a Dump: a caller can take it for a
\* stored element only when it differs from the zero Dump
Present(v) == v # ZeroDump

\* C2 as stated: At(n) reports present, with the n-th element, iff 0 <= n < L,
\* so that a caller can tell an absent result from a stored element.
C2_AtPresentIffInRange ==
    \A p \in env.procs : AtReturned(p) =>
        /\ Present(ret[p].val) <=> InRange(ret[p].arg)
        /\ InRange(ret[p].arg) => ret[p].val = Sequence[ret[p].arg + 1]

\* C2 as amended: with no AddUpload running beside it, At(n) returns the n-th
\* element when 0 <= n < L and the zero Dump otherwise, and never faults.
C2_AtElementOrZero ==
    \A p \in env.procs : AtReturned(p) =>
        /\ ret[p].val # Fault
        /\ ret[p].val = IF InRange(ret[p].arg) THEN Sequence[ret[p].arg + 1]
                        ELSE ZeroDump

\* At(1) returned the second of at least two stored uploads
C2_Witness ==
    /\ AtReturned(1)
    /\ ret[1].arg = 1
    /\ uploads.len >= 2
    /\ ret[1].val = Sequence[2]
    /\ Present(ret[1].val)

\* ---- C3 ------------------------------------------------------------------
\* GetUploadFromCacheMap holds the read lock and is about to return g[p].i
LookupReturning(p) == g[p].pc = "RUnlock"

\* C3 as stated: Lookup(id) finds id iff some upload handed to AddUpload had that
\* identifier, and returns the most recently inserted one.
C3_LookupFindsInserted ==
    \A p \in env.procs : LookupReturning(p) =>
        /\ g[p].i.ok <=> g[p].arg \in IdsOf(InsertedDumps)
        /\ g[p].i.ok => g[p].i.upload = LastWith(InsertedDumps, g[p].arg)

\* C3 as amended: Lookup(id) finds id iff some upload handed to AddUpload or to
\* SetUploadInCacheMap had that identifier, and returns the one written last.
C3_LookupFindsWritten ==
    \A p \in env.procs : LookupReturning(p) =>
        /\ g[p].i.ok <=> g[p].arg \in IdsOf(WrittenDumps)
        /\ g[p].i.ok => g[p].i.upload = LastWith(WrittenDumps, g[p].arg)

\* a Lookup returns an upload that a refresh wrote over an inserted one
C3_Witness ==
    /\ LookupReturning(1)
    /\ g[1].i.ok
    /\ g[1].arg \in IdsOf(InsertedDumps)
    /\ g[1].i.upload # LastWith(InsertedDumps, g[1].arg)

\* ---- C4 ------------------------------------------------------------------
\* C4: NewRequestState with hunkCacheSize <= 0 reports a configuration error
\* to its caller and returns no scope.
C4_InvalidHunkCacheSizeFails ==
    \A i \in DOMAIN ctorArgs :
        ctorArgs[i].hunkCacheSize <= 0 => (ctorErr /\ ~constructed)

\* ---- C5 ------------------------------------------------------------------
\* the elements behind a slice header a reader was handed
SnapshotView(h) ==
    IF h.ptr = 0 \/ h.len > Len(heap[h.ptr]) THEN <<>> ELSE View(heap, h)

\* C5: a reader never sees the slice hold an upload whose identifier the map
\* lacks or maps to an older upload, nor the reverse (stated for histories of
\* AddUpload calls alone, the case the claim names).
C5_ReadersSeeConsistentViews ==
    \A p \in env.procs :
        (ret[p].op = "GetCacheUploads" /\ OnlyInserts) =>
            LET seen == SnapshotView(ret[p].val)
                byID == ret[p].obs.byID
            IN /\ DOMAIN byID = IdsOf(seen)
               /\ \A id \in IdsOf(seen) : MapGet(byID, id) = Found(LastWith(seen, id))

\* ---- C6 ------------------------------------------------------------------
InsideWriter == {p \in Procs :
                    g[p].pc \in {"append", "appendStores", "mapstore", "range", "Unlock"}}

\* C6: every public operation holds the lock throughout: no read of either
\* view runs while a writer holds the lock, and no two writers are inside.
C6_OperationsHoldLock ==
    /\ \A p \in env.procs :
          ret[p].op \in {"GetCacheUploads", "GetCacheUploadsAtIndex"} => ret[p].obs.w = 0
    /\ \A p \in env.procs : g[p].pc = "mapread" => cacheMutex.w = 0
    /\ Cardinality(InsideWriter) <= 1

\* ---- C7 ------------------------------------------------------------------
\* every goroutine has made one call, an AddUpload, and all have returned
AllInsertedOnce ==
    /\ constructed
    /\ nops = Cardinality(env.procs)
    /\ \A p \in env.procs : g[p].pc = "idle" /\ ret[p].op = "AddUpload"

DisjointIds ==
    \A p, q \in env.procs : p # q => ret[p].arg.ID # ret[q].arg.ID

InitialLen == Len(ctorArgs[1].uploads)

\* C7: when N goroutines insert concurrently with pairwise disjoint
\* identifiers, then once all calls have returned a Lookup finds every
\* inserted upload and the slice holds all N of them.
C7_NoLostInserts ==
    (AllInsertedOnce /\ DisjointIds) =>
        /\ uploads.len = InitialLen + Cardinality(env.procs)
        /\ \A p \in env.procs :
              /\ MapGet(uploadsByID, ret[p].arg.ID) = Found(ret[p].arg)
              /\ \E i \in (InitialLen + 1)..uploads.len : Sequence[i] = ret[p].arg

\* two goroutines inserted disjoint identifiers; goroutine 2 won the lock first
C7_Witness ==
    /\ AllInsertedOnce /\ DisjointIds
    /\ Cardinality(env.procs) >= 2
    /\ Sequence[InitialLen + 1] = ret[2].arg
    /\ Sequence[InitialLen + 2] = ret[1].arg

\* ---- C8 ------------------------------------------------------------------
\* C8 as stated: after a mutation completes, the keys of the map are exactly
\* the identifiers in the slice, and each entry is the most recently inserted
\* upload with its identifier.
C8_ByIDMatchesSequence ==
    (constructed /\ NoWriterInside) =>
        /\ DOMAIN uploadsByID = IdsOf(Sequence)
        /\ \A id \in DOMAIN uploadsByID :
              /\ id \in IdsOf(InsertedDumps)
              /\ uploadsByID[id] = LastWith(InsertedDumps, id)

\* C8 as amended: after a mutation completes, every identifier in the slice is
\* a key of the map, the keys are the identifiers written by AddUpload or
\* SetUploadInCacheMap, and each entry is the upload written last for its key.
C8_ByIDCoversSequence ==
    (constructed /\ NoWriterInside) =>
        /\ IdsOf(Sequence) \subseteq DOMAIN uploadsByID
        /\ DOMAIN uploadsByID = IdsOf(WrittenDumps)
        /\ \A id \in DOMAIN uploadsByID : uploadsByID[id] = LastWith(WrittenDumps, id)

\* the map holds a key the slice lacks, and a refreshed upload under a key the
\* slice has
C8_Witness ==
    /\ constructed /\ NoWriterInside
    /\ \A p \in env.procs : g[p].pc = "idle"
    /\ \E id \in DOMAIN uploadsByID : id \notin IdsOf(Sequence)
    /\ \E id \in IdsOf(Sequence) :
          id \in DOMAIN uploadsByID /\ uploadsByID[id] # LastWith(Sequence, id)

\* ---- C9, C10 -------------------------------------------------------------
\* SetUploadInCacheMap is inside its critical section; g[p].snap is the loader
\* as it was when the call took the lock
Refreshing(p) == g[p].op = "SetUploadInCacheMap" /\ g[p].pc \in {"range", "Unlock"}
Refreshed(p) == g[p].op = "SetUploadInCacheMap" /\ g[p].pc = "Unlock"

\* C9: SetUploadInCacheMap leaves the slice as it was: what All() returns and
\* what every At(n) returns are the same before and after.
C9_RefreshKeepsSequence ==
    \A p \in env.procs : Refreshing(p) =>
        /\ uploads.len = g[p].snap.hdr.len
        /\ Sequence = View(g[p].snap.heap, g[p].snap.hdr)
        /\ \A n \in Indexes :
              AtValue(heap, uploads, n) = AtValue(g[p].snap.heap, g[p].snap.hdr, n)

\* a refresh of two uploads has changed the map of a loader that holds uploads
C9_Witness ==
    /\ Refreshed(1)
    /\ Len(g[1].arg) >= 2
    /\ uploads.len >= 2
    /\ uploadsByID # g[1].snap.byID

\* C10: SetUploadInCacheMap evicts nothing: a Lookup of an identifier outside
\* the refresh set gives what it gave before, and a Lookup of an identifier in
\* the set finds the last upload of the set with that identifier.
C10_RefreshNoEviction ==
    \A p \in env.procs : Refreshed(p) =>
        \A id \in IDs \cup DOMAIN uploadsByID \cup DOMAIN g[p].snap.byID :
            MapGet(uploadsByID, id) =
                IF id \in IdsOf(g[p].arg)
                THEN Found(LastWith(g[p].arg, id))
                ELSE MapGet(g[p].snap.byID, id)

\* a refresh set with two uploads of one identifier, on a map that holds
\* another identifier
C10_Witness ==
    /\ Refreshed(1)
    /\ Len(g[1].arg) = 2
    /\ g[1].arg[1].ID = g[1].arg[2].ID
    /\ g[1].arg[1] # g[1].arg[2]
    /\ \E id \in DOMAIN g[1].snap.byID : id \notin IdsOf(g[1].arg)

\* ---- C11 -----------------------------------------------------------------
\* C11: after construction from u_1..u_k the slice holds exactly the k
\* uploads in storage order, and from then on it is the uploads handed to
\* AddUpload in insertion order: an insert appends and nothing is reordered
\* or removed.
C11_SequenceInInsertionOrder ==
    (constructed /\ NoWriterInside) =>
        /\ uploads.len = Len(InsertedDumps)
        /\ \A i \in 1..uploads.len : Sequence[i] = ToSharedDump(InsertedDumps[i])
        /\ \A i \in 1..InitialLen : Sequence[i] = ToSharedDump(ctorArgs[1].uploads[i])

\* constructed from two different uploads; a third was inserted afterwards
C11_Witness ==
    /\ constructed /\ NoWriterInside
    /\ InitialLen = 2
    /\ ctorArgs[1].uploads[1] # ctorArgs[1].uploads[2]
    /\ uploads.len = 3
    /\ ret[1].op = "AddUpload"
    /\ Sequence[3] = ToSharedDump(ret[1].arg)
    /\ Sequence[3] # Sequence[2]

\* ---- C12 -----------------------------------------------------------------
\* C12: NewRequestState validates maxIndexes, so no scope has a
\* bound below 1, and it keeps the bound and the handle it was given.
C12_ConfigValidated ==
    constructed =>
        /\ maximumIndexesPerMonikerSearch > 0
        /\ maximumIndexesPerMonikerSearch = ctorArgs[1].maxIndexes
        /\ authChecker = ctorArgs[1].authChecker

\* ---- C13 -----------------------------------------------------------------
\* the uploads of one SetUploadInCacheMap call written to the map m, in order
RECURSIVE PutAll(_, _)
PutAll(m, ds) ==
    IF ds = <<>> THEN m ELSE PutAll(MapPut(m, DumpKey(Head(ds)), Head(ds)), Tail(ds))

\* the map after each of the calls of l has been applied whole, in order
RECURSIVE WholeCalls(_)
WholeCalls(l) ==
    IF l = <<>> THEN EmptyMap
    ELSE LET m == WholeCalls(SubSeq(l, 1, Len(l) - 1))
             c == l[Len(l)]
         IN IF c.op = "AddUpload" THEN PutAll(m, <<ToSharedDump(c.d)>>)
            ELSE PutAll(m, c.d)

LookupInside(p) == g[p].op = "GetUploadFromCacheMap" /\ g[p].pc \in {"mapread", "RUnlock"}

\* C13: SetUploadInCacheMap is atomic for concurrent lookups: while a lookup
\* holds the read lock no call is part-way through its writes, and the
\* lookup returns what the map holds after a whole number of calls, so of
\* each call's uploads it sees none or all.
C13_RefreshAtomicForLookups ==
    \A p \in env.procs : LookupInside(p) =>
        /\ \A q \in env.procs : ~Refreshing(q)
        /\ InsideWriter = {}
        /\ uploadsByID = WholeCalls(log)
        /\ g[p].pc = "RUnlock" => g[p].i = MapGet(WholeCalls(log), g[p].arg)

\* a lookup returns the second upload of the other goroutine's two-upload
\* refresh while the map holds the first as well
C13_Witness ==
    /\ LookupInside(1) /\ g[1].pc = "RUnlock"
    /\ Len(log) > InitialLen
    /\ LET c == log[Len(log)] IN
          /\ c.op = "SetUploadInCacheMap"
          /\ Len(c.d) = 2
          /\ c.d[1].ID # c.d[2].ID
          /\ g[1].arg = c.d[2].ID
          /\ g[1].i = Found(c.d[2])
          /\ c.d[2] # ZeroDump
          /\ MapGet(uploadsByID, c.d[1].ID) = Found(c.d[1])
    /\ ret[2].op = "SetUploadInCacheMap"

\* ---- C14 -----------------------------------------------------------------
LockingOps == {"GetUploadFromCacheMap", "AddUpload", "SetUploadInCacheMap"}

InCall(p) == g[p].pc # "idle" /\ g[p].op \in LockingOps

Quiescent == \A p \in Procs : g[p].pc = "idle"

LockFree == cacheMutex = [w |-> 0, wp |-> 0, r |-> {}]

\* C14: under fair scheduling every AddUpload, SetUploadInCacheMap and
\* GetUploadFromCacheMap call that starts returns, and whenever no call is in
\* progress the lock is free.
C14_CallsCompleteAndLockFreed ==
    /\ \A p \in Procs : InCall(p) ~> (g[p].pc = "idle")
    /\ [](Quiescent => LockFree)

\* both calls the bound allows have returned, the second a writer that had to
\* wait for the first, and the lock is free
C14_Witness ==
    /\ constructed /\ Quiescent /\ LockFree
    /\ nops = env.ops
    /\ ret[1].op = "SetUploadInCacheMap" /\ Len(ret[1].arg) = 2
    /\ ret[2].op = "AddUpload"
    /\ log[Len(log)].op = "AddUpload"
    /\ log[Len(log) - 1].op = "SetUploadInCacheMap"

\* ---- C15 -----------------------------------------------------------------
\* the attributes of an upload
DumpFields ==
    {"ID", "Commit", "Root", "VisibleAtTip", "UploadedAt", "State",
     "FailureMessage", "StartedAt", "FinishedAt", "ProcessAfter", "NumResets",
     "NumFailures", "RepositoryID", "RepositoryName", "Indexer",
     "IndexerVersion", "AssociatedIndexID"}

Inserted(p) == g[p].op = "AddUpload" /\ g[p].pc = "Unlock"

\* C15: AddUpload(d) copies every attribute of d: the element it appends and
\* the map value under d.ID are the same upload, which has d's value in each
\* of the seventeen attributes, and the reads return that upload unchanged.
C15_InsertCopiesEveryField ==
    \A p \in env.procs : Inserted(p) =>
        LET d == g[p].arg
            e == Sequence[uploads.len]
        IN /\ d.ID \in DOMAIN uploadsByID
           /\ uploadsByID[d.ID] = e
           /\ DOMAIN e = DumpFields
           /\ \A f \in DumpFields : e[f] = d[f]
           /\ AtValue(heap, uploads, uploads.len - 1) = e
           /\ MapGet(uploadsByID, d.ID) = Found(e)

\* an upload none of whose attributes has the zero value has been inserted
\* after another one
C15_Witness ==
    /\ Inserted(1)
    /\ uploads.len >= 2
    /\ \A f \in DumpFields : g[1].arg[f] # ZeroDump[f]
    /\ Sequence[uploads.len] = StorageDump(1, 1)

\* ---- C16 -----------------------------------------------------------------
Wrote(p) == g[p].pc = "idle" /\ ret[p].op = "write"

\* the slice as it was just before p's write
BeforeWrite(p) == View(ret[p].obs.heap, ret[p].obs.hdr)

\* C16: a caller's write to an element of the slice it got from
\* GetCacheUploads changes neither the slice the loader holds nor the map.
C16_CallerWriteInvisible ==
    \A p \in env.procs : Wrote(p) =>
        /\ uploads = ret[p].obs.hdr
        /\ Sequence = BeforeWrite(p)
        /\ uploadsByID = ret[p].obs.byID

\* C16 as amended: the write leaves the map and the loader's slice header as
\* they were; unless an AddUpload has moved the loader to a larger array in
\* between, it replaces the element at that position in the loader's slice.
C16_CallerWriteReachesSharedArray ==
    \A p \in env.procs : Wrote(p) =>
        LET a == ret[p].arg IN
        /\ uploads = ret[p].obs.hdr
        /\ uploadsByID = ret[p].obs.byID
        /\ Sequence = IF uploads.cap = a.hdr.cap
                      THEN [BeforeWrite(p) EXCEPT ![a.index] = a.v]
                      ELSE BeforeWrite(p)
        /\ uploads.cap = a.hdr.cap =>
              /\ AtValue(heap, uploads, a.index - 1) = a.v
              /\ Sequence # BeforeWrite(p)

\* the caller overwrote an element of the loader's slice with an upload of
\* another identifier; the map still finds the upload that was there
C16_Witness ==
    /\ Wrote(1)
    /\ LET a == ret[1].arg IN
          /\ Sequence[a.index] = a.v
          /\ BeforeWrite(1)[a.index].ID # a.v.ID
          /\ MapGet(uploadsByID, BeforeWrite(1)[a.index].ID) = Found(BeforeWrite(1)[a.index])

\* ---- C17 -----------------------------------------------------------------
\* C17: whenever no writer is inside, every identifier in the slice is a key
\* of the map; and no step shortens the slice or removes a key of the map.
C17_IdsCoveredAndNothingRemoved ==
    /\ []((constructed /\ NoWriterInside) => IdsOf(Sequence) \subseteq DOMAIN uploadsByID)
    /\ [][/\ uploads'.len >= uploads.len
          /\ DOMAIN uploadsByID \subseteq DOMAIN uploadsByID']_<<uploads, uploadsByID>>

\* after an insert and a refresh the slice has grown and the map holds a key
\* of the slice and a key that only the refresh wrote
C17_Witness ==
    /\ constructed /\ NoWriterInside
    /\ uploads.len > InitialLen
    /\ IdsOf(Sequence) # {}
    /\ IdsOf(Sequence) \subseteq DOMAIN uploadsByID
    /\ DOMAIN uploadsByID \ IdsOf(Sequence) # {}
    /\ ret[1].op = "SetUploadInCacheMap"

\* ---- C18 -----------------------------------------------------------------
Reloaded(p) == g[p].pc = "idle" /\ ret[p].op = "SetUploadsDataLoader"

\* C18: after SetUploadsDataLoader(ds) on a scope that holds uploads, the
\* slice is exactly ds in order and the map holds exactly the identifiers of
\* ds, each with the last upload of ds that has it; nothing cached before
\* remains.
C18_ReloadReplacesCache ==
    \A p \in env.procs : Reloaded(p) =>
        LET ds == ret[p].arg IN
        /\ Sequence = [i \in 1..Len(ds) |-> ToSharedDump(ds[i])]
        /\ DOMAIN uploadsByID = IdsOf(ds)
        /\ \A id \in IDs :
              MapGet(uploadsByID, id) =
                 IF id \in IdsOf(ds) THEN Found(ToSharedDump(LastWith(ds, id)))
                 ELSE [upload |-> ZeroDump, ok |-> FALSE]

\* the scope held an upload and a key only a refresh had written; the new list
\* has neither that key nor the same uploads
C18_Witness ==
    /\ Reloaded(1)
    /\ LET ds == ret[1].arg
           old == ret[1].obs
       IN /\ old.hdr.len >= 1
          /\ ds # <<>>
          /\ Sequence # View(old.heap, old.hdr)
          /\ \E id \in DOMAIN old.byID :
                /\ id \notin IdsOf(View(old.heap, old.hdr))
                /\ id \notin IdsOf(ds)
                /\ ~MapGet(uploadsByID, id).ok

=============================================================================
